---- MODULE Spec2Model ----
(***************************************************************************)
(* Tridiagonalization.h (Eigen): the Tridiagonalization class, the          *)
(* two-argument in-place reducer ei_tridiagonalization_inplace(matA,        *)
(* hCoeffs) and the four-argument entry point with its size selector.       *)
(*                                                                         *)
(* Scalars are exact complex rationals <<a, b, d>> = (a + b*i)/d, d > 0,    *)
(* in lowest terms.  <<0, 0, 0>> is an indeterminate value: the content of  *)
(* storage that was allocated and never written, a division by zero, or a   *)
(* square root that is not rational.  Arithmetic on it is indeterminate.    *)
(* Vectors are sequences (index i of the code is position i+1), matrices    *)
(* are records [rows, cols, a] with a[r][c] indexed from 0 as in the code.  *)
(***************************************************************************)
EXTENDS Integers, Sequences, FiniteSets, TLC

(***************************************************************************)
(* Bounds of the model.                                                    *)
(***************************************************************************)
\* largest matrix order of the inputs
MaxOrder == 3

(***************************************************************************)
(* Scalar arithmetic.                                                      *)
(***************************************************************************)
Abs(k) == IF k < 0 THEN -k ELSE k

RECURSIVE Gcd(_, _)
Gcd(a, b) == IF b = 0 THEN a ELSE Gcd(b, a % b)

Indet == <<0, 0, 0>>

IsIndet(z) == z[3] = 0

\* (a + b*i)/d in lowest terms with a positive denominator
Frac(a, b, d) ==
  IF d = 0 THEN Indet
  ELSE LET g == Gcd(Gcd(Abs(a), Abs(b)), Abs(d))
           s == IF d < 0 THEN -g ELSE g
       IN <<a \div s, b \div s, d \div s>>

Num(k) == <<k, 0, 1>>

Cx(re, im) == <<re, im, 1>>

CAdd(x, y) == Frac(x[1]*y[3] + y[1]*x[3], x[2]*y[3] + y[2]*x[3], x[3]*y[3])

CNeg(x) == <<-x[1], -x[2], x[3]>>

CSub(x, y) == CAdd(x, CNeg(y))

CMul(x, y) == Frac(x[1]*y[1] - x[2]*y[2], x[1]*y[2] + x[2]*y[1], x[3]*y[3])

\* x / y = x * conj(y) / |y|^2
CDiv(x, y) ==
  IF IsIndet(x) THEN Indet
  ELSE Frac((x[1]*y[1] + x[2]*y[2]) * y[3], (x[2]*y[1] - x[1]*y[2]) * y[3],
            x[3] * (y[1]*y[1] + y[2]*y[2]))

ei_conj(x) == <<x[1], -x[2], x[3]>>

ei_real(x) == <<x[1], 0, x[3]>>

ei_abs2(x) == Frac(x[1]*x[1] + x[2]*x[2], 0, x[3]*x[3])

IsReal(x) == x[2] = 0

\* x <= y for real x, y
RLeq(x, y) == x[1]*y[3] <= y[1]*x[3]

RAbs(x) == <<Abs(x[1]), 0, x[3]>>

RECURSIVE ISqrtIter(_, _)
ISqrtIter(k, x) ==
  LET y == (x + k \div x) \div 2
  IN IF y >= x THEN x ELSE ISqrtIter(k, y)

\* floor of the square root of k >= 0
ISqrt(k) == IF k = 0 THEN 0 ELSE ISqrtIter(k, k)

\* the square root of a real x >= 0 when it is rational, indeterminate otherwise
ei_sqrt(x) ==
  IF IsIndet(x) \/ x[2] # 0 \/ x[1] < 0 THEN Indet
  ELSE LET p == ISqrt(x[1])
           q == ISqrt(x[3])
       IN IF p*p = x[1] /\ q*q = x[3] THEN <<p, 0, q>> ELSE Indet

\* NumTraits<float>::dummy_precision() = 1e-5, as the fraction 1/PrecisionInv
PrecisionInv == 100000

\* ei_isMuchSmallerThan(x, y) for reals: |x| <= |y| * precision
ei_isMuchSmallerThan(x, y) ==
  RLeq(RAbs(x), CMul(RAbs(y), <<1, 0, PrecisionInv>>))

(***************************************************************************)
(* Vectors and matrices.                                                   *)
(***************************************************************************)
\* f itself.  TLC keeps a function constructor as a rule that it evaluates
\* again at every application; comparing it makes it a table, once.
Eager(f) == IF f = f THEN f ELSE f

RECURSIVE SumTo(_, _)
\* f[0] + ... + f[k-1]
SumTo(f, k) == IF k = 0 THEN Num(0) ELSE CAdd(SumTo(f, k - 1), f[k - 1])

\* a vector of the given size whose storage was never written
UninitVector(size) == Eager([k \in 1..size |-> Indet])

\* a rows x cols matrix whose storage was never written
UninitMatrix(rows, cols) ==
  [rows |-> rows, cols |-> cols,
   a |-> Eager([r \in 0..(rows - 1) |-> [c \in 0..(cols - 1) |-> Indet]])]

Identity(n) ==
  [rows |-> n, cols |-> n,
   a |-> Eager([r \in 0..(n - 1) |->
                  [c \in 0..(n - 1) |-> IF r = c THEN Num(1) ELSE Num(0)]])]

\* v.conjugate()
VConj(v) == Eager([k \in 1..Len(v) |-> ei_conj(v[k])])

\* x.dot(y) = sum of conj(x[k]) * y[k]
Dot(x, y) == SumTo([k \in 0..(Len(x) - 1) |-> CMul(ei_conj(x[k + 1]), y[k + 1])], Len(x))

\* matA.col(i).tail(r): rows i+1 .. n-1 of column i
ColTail(matA, i) == Eager([k \in 1..(matA.rows - i - 1) |-> matA.a[i + k][i]])

\* mat.diagonal()
Diagonal(mat) == Eager([k \in 1..mat.rows |-> mat.a[k - 1][k - 1]])

\* mat.diagonal<-1>()
SubDiag(mat) == Eager([k \in 1..(mat.rows - 1) |-> mat.a[k][k - 1]])

VReal(v) == Eager([k \in 1..Len(v) |-> ei_real(v[k])])

(***************************************************************************)
(* Collaborators of the reducer (Householder and selfadjoint kernels).     *)
(***************************************************************************)
\* the two values the transformed leading entry may take: +norm and -norm
Signs == {1, -1}

\* x.makeHouseholderInPlace(h, beta): a reflector H = I - h v v^* with
\* H x = beta e1, beta real, v = (1, essential); the tail of x becomes the
\* essential part and its leading entry is left as it is.
\* A vector with zero tail and real leading entry is already reduced (h = 0).
\* Otherwise beta = sign * ||x||; the contract fixes |beta| and not its sign.
MakeHouseholderInPlace(x, sign) ==
  LET c0 == x[1]
      tailSqNorm == SumTo([k \in 0..(Len(x) - 2) |-> ei_abs2(x[k + 2])], Len(x) - 1)
  IN IF tailSqNorm = Num(0) /\ IsReal(c0)
     THEN [h |-> IF IsIndet(c0) THEN Indet ELSE Num(0), beta |-> ei_real(c0),
           x |-> Eager([k \in 1..Len(x) |-> IF k = 1 THEN c0 ELSE Num(0)])]
     ELSE LET beta == CMul(Num(sign), ei_sqrt(CAdd(ei_abs2(c0), tailSqNorm)))
              d == CSub(c0, beta)
          IN [h |-> ei_conj(CDiv(CSub(beta, c0), beta)), beta |-> beta,
              x |-> Eager([k \in 1..Len(x) |-> IF k = 1 THEN c0 ELSE CDiv(x[k], d)])]

\* entry (j, k) of matA.bottomRightCorner(r, r).selfadjointView<Lower>():
\* the lower triangle as stored, the upper one as its conjugate transpose
SelfadjointLower(matA, r, j, k) ==
  LET o == matA.rows - r
  IN IF j >= k THEN matA.a[o + j][o + k] ELSE ei_conj(matA.a[o + k][o + j])

\* matA.bottomRightCorner(r, r).selfadjointView<Lower>() * w
SelfadjointProduct(matA, r, w) ==
  Eager([j \in 1..r |->
     SumTo([k \in 0..(r - 1) |-> CMul(SelfadjointLower(matA, r, j - 1, k), w[k + 1])], r)])

\* matA.bottomRightCorner(r, r).selfadjointView<Lower>().rankUpdate(u, v, alpha):
\* A += alpha u v^* + conj(alpha) v u^*, written to the lower triangle
\* (diagonal included) of the corner only
RankUpdate(matA, r, u, v, alpha) ==
  LET o == matA.rows - r
  IN [matA EXCEPT !.a =
        Eager([row \in 0..(matA.rows - 1) |-> [c \in 0..(matA.cols - 1) |->
           IF row >= o /\ c >= o /\ row >= c
           THEN CAdd(matA.a[row][c],
                     CAdd(CMul(alpha, CMul(u[row - o + 1], ei_conj(v[c - o + 1]))),
                          CMul(ei_conj(alpha), CMul(v[row - o + 1], ei_conj(u[c - o + 1])))))
           ELSE matA.a[row][c]]])]

\* v scaled by the scalar s
Scale(s, v) == Eager([k \in 1..Len(v) |-> CMul(s, v[k])])

\* matA.col(i).tail(r) = x
SetColTail(matA, i, x) ==
  [matA EXCEPT !.a =
     Eager([row \in 0..(matA.rows - 1) |-> [c \in 0..(matA.cols - 1) |->
        IF c = i /\ row > i THEN x[row - i] ELSE matA.a[row][c]]])]

\* matA.coeffRef(r, c) = s
SetCoeff(matA, r, c, s) == [matA EXCEPT !.a[r][c] = s]

\* hCoeffs.tail(r) = p
SetTail(hCoeffs, r, p) ==
  Eager([k \in 1..Len(hCoeffs) |->
     IF k > Len(hCoeffs) - r THEN p[k - (Len(hCoeffs) - r)] ELSE hCoeffs[k]])

\* hCoeffs.tail(r)
Tail_(hCoeffs, r) == Eager([k \in 1..r |-> hCoeffs[Len(hCoeffs) - r + k]])


(***************************************************************************)
(* ei_tridiagonalization_inplace(matA, hCoeffs): the statements of the      *)
(* loop body for column i, on the frame [matA, hCoeffs, h, beta].           *)
(***************************************************************************)
\* matA.col(i).tail(remainingSize).makeHouseholderInPlace(h, beta)
StmtMakeHouseholder(fr, i, sign) ==
  LET hh == MakeHouseholderInPlace(ColTail(fr.matA, i), sign)
  IN [matA |-> SetColTail(fr.matA, i, hh.x), hCoeffs |-> fr.hCoeffs,
      h |-> hh.h, beta |-> hh.beta]

\* the 1 written at (i, i+1), above the diagonal
StmtSetOneTransposed(fr, i) == [fr EXCEPT !.matA = SetCoeff(fr.matA, i, i + 1, Num(1))]

\* matA.col(i).coeffRef(i+1) = 1
StmtSetOne(fr, i) == [fr EXCEPT !.matA = SetCoeff(fr.matA, i + 1, i, Num(1))]

\* the product assigned to hCoeffs.head(n-i-1), the first entries
StmtProductToHead(fr, i) ==
  LET remainingSize == fr.matA.rows - i - 1
      p == SelfadjointProduct(fr.matA, remainingSize,
                              Scale(ei_conj(fr.h), ColTail(fr.matA, i)))
  IN [fr EXCEPT !.hCoeffs =
        Eager([k \in 1..Len(fr.hCoeffs) |->
                 IF k <= remainingSize THEN p[k] ELSE fr.hCoeffs[k]])]

\* hCoeffs.tail(n-i-1).noalias() = selfadjointView<Lower>() * (conj(h) * v)
StmtProduct(fr, i) ==
  LET remainingSize == fr.matA.rows - i - 1
  IN [fr EXCEPT !.hCoeffs =
        SetTail(fr.hCoeffs, remainingSize,
                SelfadjointProduct(fr.matA, remainingSize,
                                   Scale(ei_conj(fr.h), ColTail(fr.matA, i))))]

\* hCoeffs.tail(n-i-1) += (conj(h) * Scalar(-0.5) * hCoeffs.tail.dot(v)) * v
StmtCorrect(fr, i) ==
  LET remainingSize == fr.matA.rows - i - 1
      v == ColTail(fr.matA, i)
      p == Tail_(fr.hCoeffs, remainingSize)
      c == CMul(CMul(ei_conj(fr.h), <<-1, 0, 2>>), Dot(p, v))
  IN [fr EXCEPT !.hCoeffs =
        SetTail(fr.hCoeffs, remainingSize,
                Eager([k \in 1..remainingSize |-> CAdd(p[k], CMul(c, v[k]))]))]

\* selfadjointView<Lower>().rankUpdate(v, hCoeffs.tail(remainingSize), -1)
StmtRankUpdate(fr, i) ==
  LET remainingSize == fr.matA.rows - i - 1
  IN [fr EXCEPT !.matA =
        RankUpdate(fr.matA, remainingSize, ColTail(fr.matA, i),
                   Tail_(fr.hCoeffs, remainingSize), Num(-1))]

\* matA.col(i).coeffRef(i+1) = beta
StmtSetBeta(fr, i) == [fr EXCEPT !.matA = SetCoeff(fr.matA, i + 1, i, fr.beta)]

\* hCoeffs.coeffRef(i) = h
StmtStoreH(fr, i) == [fr EXCEPT !.hCoeffs = [fr.hCoeffs EXCEPT ![i + 1] = fr.h]]

\* the whole loop body for column i
ReducerIteration(fr, i, sign) ==
  StmtStoreH(StmtSetBeta(StmtRankUpdate(StmtCorrect(StmtProduct(StmtSetOne(
    StmtMakeHouseholder(fr, i, sign), i), i), i), i), i), i)

RECURSIVE ReducerFrom(_, _, _)
\* the loop from column i to the end; signs[k+1] is the reflector sign of column k
ReducerFrom(fr, i, signs) ==
  IF i >= fr.matA.rows - 1 THEN fr
  ELSE ReducerFrom(ReducerIteration(fr, i, signs[i + 1]), i + 1, signs)

RECURSIVE AfterIteration(_, _, _)
\* the loop from column 0 up to and including column k
AfterIteration(fr, k, signs) ==
  IF k < 0 THEN fr
  ELSE ReducerIteration(AfterIteration(fr, k - 1, signs), k, signs[k + 1])

\* the frame at the loop's entry: h and beta are not yet assigned
EntryFrame(matA, hc) == [matA |-> matA, hCoeffs |-> hc, h |-> Indet, beta |-> Indet]

(***************************************************************************)
(* The input matrices.  Only the lower triangle of a selfadjoint input is   *)
(* referenced; the inputs are given with the strict upper triangle equal    *)
(* to the conjugate transpose plus Marker, so that the two triangles        *)
(* differ and "the upper part is left unchanged" is an observable fact.     *)
(***************************************************************************)
\* first columns below the diagonal (rows 1 and 2); further rows are zero
Col0Choices ==
  { <<Num(3), Num(4)>>, <<Num(3), Num(-4)>>, <<Num(-4), Num(3)>>, <<Num(0), Num(-2)>>,
    <<Num(2), Num(0)>>, <<Num(0), Num(0)>>, <<Cx(0, 3), Num(4)>> }

\* the diagonal, repeated with period 3
DiagChoices == { <<4, 2, 3>>, <<1, 1, 1>> }

\* the entries (j+1, j) for j >= 1
SubChoices == { Num(0), Num(-2), Cx(0, 1) }

Marker == Num(7)

InputMatrix(n, col0, dg, sub) ==
  LET low(r, c) == IF r = c THEN Num(dg[(r % 3) + 1])
                   ELSE IF c = 0 THEN (IF r <= 2 THEN col0[r] ELSE Num(0))
                   ELSE IF r = c + 1 THEN sub
                   ELSE Num(0)
  IN [rows |-> n, cols |-> n,
      a |-> Eager([r \in 0..(n - 1) |-> [c \in 0..(n - 1) |->
               IF r >= c THEN low(r, c) ELSE CAdd(ei_conj(low(c, r)), Marker)]])]

\* the parameters for which every square root of the reduction is rational:
\* a first column that is already reduced, or no further subdiagonal, or
\* order 3 with the first column and the subdiagonal both real or both not
Admissible(n, col0, sub) ==
  \/ n <= 2
  \/ col0[2] = Num(0)
  \/ sub = Num(0)
  \/ n = 3 /\ (IsReal(col0[1]) <=> IsReal(sub))

InputsOf(n) ==
  { InputMatrix(n, p[1], p[2], p[3]) :
      p \in { q \in Col0Choices \X DiagChoices \X SubChoices : Admissible(n, q[1], q[3]) } }

Inputs == UNION { InputsOf(n) : n \in 1..MaxOrder }

\* every entry of the matrix and of the vector is a determinate number
Determinate(matA, vec) ==
  /\ \A r \in 0..(matA.rows - 1) : \A c \in 0..(matA.cols - 1) : ~IsIndet(matA.a[r][c])
  /\ \A k \in 1..Len(vec) : ~IsIndet(vec[k])

(***************************************************************************)
(* Dense-matrix helpers of the accessors.                                  *)
(***************************************************************************)
\* v.resize(size): storage is kept when the size does not change, and is
\* reallocated (never written) when it does
Resize(v, size) == IF Len(v) = size THEN v ELSE UninitVector(size)

\* mat.topRightCorner(k, k).diagonal() = v
SetTopRightCornerDiagonal(mat, k, v) ==
  [mat EXCEPT !.a =
     Eager([r \in 0..(mat.rows - 1) |-> [c \in 0..(mat.cols - 1) |->
        IF r < k /\ c = r + (mat.cols - k) THEN v[r + 1] ELSE mat.a[r][c]]])]

\* mat.topRightCorner(k, k).triangularView<Upper>().setZero()
ZeroTopRightUpper(mat, k) ==
  [mat EXCEPT !.a =
     Eager([r \in 0..(mat.rows - 1) |-> [c \in 0..(mat.cols - 1) |->
        IF r < k /\ c >= mat.cols - k /\ c - (mat.cols - k) >= r
        THEN Num(0) ELSE mat.a[r][c]]])]

\* mat.bottomLeftCorner(k, k).triangularView<Lower>().setZero()
ZeroBottomLeftLower(mat, k) ==
  [mat EXCEPT !.a =
     Eager([r \in 0..(mat.rows - 1) |-> [c \in 0..(mat.cols - 1) |->
        IF r >= mat.rows - k /\ c < k /\ r - (mat.rows - k) >= c
        THEN Num(0) ELSE mat.a[r][c]]])]

\* the value of Tridiagonalization::diagonal(): m_matrix.diagonal(), its real
\* part for a complex scalar
DiagonalValue(m) == VReal(Diagonal(m))

\* the value of Tridiagonalization::subDiagonal(): the diagonal of the block
\* of order n-1 at (1, 0), its real part for a complex scalar
SubDiagonalValue(m) == VReal(SubDiag(m))

\* matrixT() with the two corners zeroed for n > 3 only
MatrixTValueLateZeroing(m) ==
  LET n == m.rows
      matT1 == SetTopRightCornerDiagonal(m, n - 1, VConj(SubDiagonalValue(m)))
  IN IF n > 3 THEN ZeroBottomLeftLower(ZeroTopRightUpper(matT1, n - 2), n - 2)
     ELSE matT1

\* the value of Tridiagonalization::matrixT()
MatrixTValue(m) ==
  LET n == m.rows
      matT1 == SetTopRightCornerDiagonal(m, n - 1, VConj(SubDiagonalValue(m)))
  IN IF n > 2 THEN ZeroBottomLeftLower(ZeroTopRightUpper(matT1, n - 2), n - 2)
     ELSE matT1

\* HouseholderSequenceType(vectors, coeffs, false, actualVectors, 1): the
\* object matrixQ() returns; it refers to the packed data and is not evaluated
HouseholderSequence(vectors, coeffs, actualVectors) ==
  [vectors |-> vectors, coeffs |-> coeffs, trans |-> FALSE,
   actualVectors |-> actualVectors, shift |-> 1]

MatMul(A, B) ==
  [rows |-> A.rows, cols |-> B.cols,
   a |-> Eager([r \in 0..(A.rows - 1) |-> [c \in 0..(B.cols - 1) |->
            SumTo([k \in 0..(A.cols - 1) |-> CMul(A.a[r][k], B.a[k][c])], A.cols)]])]

\* reflector k of a sequence with shift 1: I - coeffs[k] v v^*, where
\* v = (0, ..., 0, 1, vectors(k+2, k), ..., vectors(n-1, k))
ReflectorMatrix(hs, k) ==
  LET n == hs.vectors.rows
      v(r) == IF r <= k THEN Num(0)
              ELSE IF r = k + 1 THEN Num(1) ELSE hs.vectors.a[r][k]
  IN [rows |-> n, cols |-> n,
      a |-> Eager([r \in 0..(n - 1) |-> [c \in 0..(n - 1) |->
               CSub(IF r = c THEN Num(1) ELSE Num(0),
                    CMul(hs.coeffs[k + 1], CMul(v(r), ei_conj(v(c)))))]])]

RECURSIVE SequenceProduct(_, _)
\* H_k H_(k+1) ... H_(actualVectors-1)
SequenceProduct(hs, k) ==
  IF k >= hs.actualVectors THEN Identity(hs.vectors.rows)
  ELSE MatMul(ReflectorMatrix(hs, k), SequenceProduct(hs, k + 1))

\* the dense matrix a HouseholderSequence evaluates to when assigned
EvalTo(hs) == SequenceProduct(hs, 0)

(***************************************************************************)
(* State.  One Tridiagonalization object (m_matrix, m_hCoeffs,             *)
(* m_isInitialized), the arguments of a call of the free functions (mat,   *)
(* diag, subdiag, extractQ, hCoeffs), the position and the locals of the   *)
(* running function (pc, i, h, beta), and history variables: op is the     *)
(* operation called last, matrix the matrix the reducer was entered with,  *)
(* previous the order of m_matrix before the last compute(),               *)
(* args the arguments as the caller passed them, signs the reflector signs *)
(* taken, visited the loop indices run, path the selector taken, ret the   *)
(* value an accessor returned, failed the message of a failed assertion.   *)
(***************************************************************************)
VARIABLES m_matrix, m_hCoeffs, m_isInitialized,
          mat, diag, subdiag, extractQ, Size, hCoeffs,
          pc, i, h, beta,
          op, matrix, previous, args, signs, visited, path, ret, failed

vars == <<m_matrix, m_hCoeffs, m_isInitialized, mat, diag, subdiag, extractQ, Size,
          hCoeffs, pc, i, h, beta, op, matrix, previous, args, signs, visited, path, ret,
          failed>>

object == <<m_matrix, m_hCoeffs, m_isInitialized>>

arguments == <<mat, diag, subdiag, extractQ, Size, args, path>>

history == <<op, matrix, previous, ret>>

locals == <<i, h, beta, signs, visited>>

NoMatrix == [rows |-> 0, cols |-> 0, a |-> <<>>]

NoRet == [op |-> "none", vec |-> <<>>, mat |-> NoMatrix, seq |-> <<>>]

NoArgs == [mat |-> NoMatrix, diag |-> <<>>, subdiag |-> <<>>, hCoeffs |-> <<>>]

\* Eigen's Dynamic: the order is not known at compile time
Dynamic == -1

NotInitialized == "Tridiagonalization is not initialized."

FacadeOps == {"Tridiagonalization(size)", "Tridiagonalization(matrix)", "compute"}

AccessorOps == {"householderCoefficients", "packedMatrix", "matrixQ", "matrixT",
                "diagonal", "subDiagonal"}

\* the buffers the parameters matA and hCoeffs of the reducer are bound to:
\* the members of the object, or mat and the caller's coefficient vector
OnObject == op \in FacadeOps

RefFrame ==
  IF OnObject THEN [matA |-> m_matrix, hCoeffs |-> m_hCoeffs, h |-> h, beta |-> beta]
  ELSE [matA |-> mat, hCoeffs |-> hCoeffs, h |-> h, beta |-> beta]

\* the writes of a statement of the reducer, through the references
Store(fr) ==
  /\ h' = fr.h
  /\ beta' = fr.beta
  /\ IF OnObject
     THEN /\ m_matrix' = fr.matA
          /\ m_hCoeffs' = fr.hCoeffs
          /\ UNCHANGED <<mat, hCoeffs>>
     ELSE /\ mat' = fr.matA
          /\ hCoeffs' = fr.hCoeffs
          /\ UNCHANGED <<m_matrix, m_hCoeffs>>

ResetLocals ==
  /\ i' = 0
  /\ h' = Indet
  /\ beta' = Indet
  /\ signs' = <<>>
  /\ visited' = <<>>

(***************************************************************************)
(* The class Tridiagonalization.                                           *)
(***************************************************************************)
\* the size of m_hCoeffs the constructors allocate
CtorCoeffSize(size) == IF size > 1 THEN size - 1 ELSE 1

\* compute() sizing m_hCoeffs the way the constructors do
ComputeCoeffSizeAsConstructor(rows) == IF rows > 1 THEN rows - 1 ELSE 1

\* the size compute() gives m_hCoeffs
ComputeCoeffSize(rows) == rows - 1

\* Tridiagonalization(Index size): the state after construction
SizeConstructor(size) ==
  /\ m_matrix = UninitMatrix(size, size)
  /\ m_hCoeffs = UninitVector(CtorCoeffSize(size))
  /\ m_isInitialized = FALSE
  /\ pc = "idle"
  /\ op = "Tridiagonalization(size)"
  /\ matrix = NoMatrix

\* Tridiagonalization(const MatrixType& matrix): the state after the member
\* initialisers, at the call of the reducer in the constructor's body
MatrixConstructor(A) ==
  /\ m_matrix = A
  /\ m_hCoeffs = UninitVector(CtorCoeffSize(A.cols))
  /\ m_isInitialized = FALSE
  /\ pc = "reducer"
  /\ op = "Tridiagonalization(matrix)"
  /\ matrix = A

NoCall ==
  /\ mat = NoMatrix /\ diag = <<>> /\ subdiag = <<>> /\ extractQ = FALSE
  /\ Size = Dynamic /\ hCoeffs = <<>> /\ args = NoArgs /\ path = "none"

Init ==
  /\ \/ \E size \in 1..MaxOrder : SizeConstructor(size)
     \/ \E A \in Inputs : MatrixConstructor(A)
  /\ NoCall
  /\ i = 0 /\ h = Indet /\ beta = Indet /\ signs = <<>> /\ visited = <<>>
  /\ previous = 0
  /\ ret = NoRet
  /\ failed = ""

\* compute(matrix), up to the call of the reducer
compute(A) ==
  /\ pc = "idle"
  /\ OnObject \/ op \in AccessorOps
  /\ m_matrix' = A
  /\ m_hCoeffs' = Resize(m_hCoeffs, ComputeCoeffSize(A.rows))
  /\ op' = "compute"
  /\ matrix' = A
  /\ previous' = m_matrix.rows
  /\ pc' = "reducer"
  /\ ret' = NoRet
  /\ ResetLocals
  /\ UNCHANGED <<m_isInitialized, mat, diag, subdiag, extractQ, Size, hCoeffs, args,
                 path, failed>>

(***************************************************************************)
(* ei_tridiagonalization_inplace(matA, hCoeffs), statement by statement.   *)
(***************************************************************************)
\* the assertion that fails first, "" when both hold
ReducerAsserts(matA, hc) ==
  IF matA.rows # matA.cols THEN "matA.rows()==matA.cols()"
  ELSE IF matA.rows # Len(hc) + 1 THEN "matA.rows()==hCoeffs.size()+1"
  ELSE ""

\* a loop that stops one column early
LoopTestShort(k, n) == k < n - 2

\* the condition of the for loop
LoopTest(k, n) == k < n - 1

ReducerBody == {"l367", "l371", "l373", "l376", "l378", "l381", "l382"}

InReducer == pc \in ReducerBody \cup {"loop", "return"}

\* entry: the two assertions, then Index n = matA.rows() and i = 0
ReducerEnter ==
  /\ pc = "reducer"
  /\ LET msg == ReducerAsserts(RefFrame.matA, RefFrame.hCoeffs)
     IN /\ failed' = msg
        /\ pc' = IF msg = "" THEN "loop" ELSE "aborted"
  /\ matrix' = RefFrame.matA
  /\ ResetLocals
  /\ UNCHANGED <<object, mat, diag, subdiag, extractQ, Size, hCoeffs, args, path, op,
                 previous, ret>>

\* i < n-1
LoopCondition ==
  /\ pc = "loop"
  /\ pc' = IF LoopTest(i, RefFrame.matA.rows) THEN "l367" ELSE "return"
  /\ UNCHANGED <<object, arguments, hCoeffs, locals, history, failed>>

\* a statement of the loop body: its writes, and the next position
Statement(fr, next) ==
  /\ Store(fr)
  /\ pc' = next
  /\ UNCHANGED <<m_isInitialized, diag, subdiag, extractQ, Size, args, path,
                 history, failed, i, visited>>

MakeHouseholder ==
  /\ pc = "l367"
  /\ \E sign \in Signs :
       /\ Statement(StmtMakeHouseholder(RefFrame, i, sign), "l371")
       /\ signs' = Append(signs, sign)

SetOne ==
  /\ pc = "l371"
  /\ Statement(StmtSetOne(RefFrame, i), "l373")
  /\ UNCHANGED signs

Product ==
  /\ pc = "l373"
  /\ Statement(StmtProduct(RefFrame, i), "l376")
  /\ UNCHANGED signs

Correct ==
  /\ pc = "l376"
  /\ Statement(StmtCorrect(RefFrame, i), "l378")
  /\ UNCHANGED signs

RankUpdateStep ==
  /\ pc = "l378"
  /\ Statement(StmtRankUpdate(RefFrame, i), "l381")
  /\ UNCHANGED signs

SetBeta ==
  /\ pc = "l381"
  /\ Statement(StmtSetBeta(RefFrame, i), "l382")
  /\ UNCHANGED signs

\* hCoeffs.coeffRef(i) = h, and ++i
StoreH ==
  /\ pc = "l382"
  /\ Store(StmtStoreH(RefFrame, i))
  /\ i' = i + 1
  /\ visited' = Append(visited, i)
  /\ pc' = "loop"
  /\ UNCHANGED <<m_isInitialized, diag, subdiag, extractQ, Size, args, path,
                 history, failed, signs>>

\* a return that leaves the flag as it was
FacadeReturnWithoutFlag ==
  /\ pc = "return"
  /\ OnObject
  /\ pc' = "idle"
  /\ UNCHANGED <<object, arguments, hCoeffs, locals, history, failed>>

\* back in the constructor or in compute(): m_isInitialized = true
FacadeReturn ==
  /\ pc = "return"
  /\ OnObject
  /\ m_isInitialized' = TRUE
  /\ pc' = "idle"
  /\ UNCHANGED <<m_matrix, m_hCoeffs, arguments, hCoeffs, locals, history, failed>>

(***************************************************************************)
(* The accessors.                                                          *)
(***************************************************************************)
\* ei_assert(m_isInitialized && "..."), then the return of the value
Accessor(name, vec, m, seq) ==
  /\ pc = "idle"
  /\ OnObject \/ op \in AccessorOps
  /\ op' = name
  /\ IF m_isInitialized
     THEN /\ ret' = [op |-> name, vec |-> vec, mat |-> m, seq |-> seq]
          /\ UNCHANGED <<pc, failed>>
     ELSE /\ failed' = NotInitialized
          /\ pc' = "aborted"
          /\ UNCHANGED ret
  /\ UNCHANGED <<object, arguments, hCoeffs, locals, matrix, previous>>

householderCoefficients == Accessor("householderCoefficients", m_hCoeffs, NoMatrix, <<>>)

packedMatrix == Accessor("packedMatrix", <<>>, m_matrix, <<>>)

matrixQ ==
  Accessor("matrixQ", <<>>, NoMatrix,
           HouseholderSequence(m_matrix, VConj(m_hCoeffs), m_matrix.rows - 1))

diagonal == Accessor("diagonal", DiagonalValue(m_matrix), NoMatrix, <<>>)

subDiagonal == Accessor("subDiagonal", SubDiagonalValue(m_matrix), NoMatrix, <<>>)

\* matrixT() mirroring and zeroing m_matrix itself
matrixTInPlace ==
  /\ pc = "idle"
  /\ OnObject \/ op \in AccessorOps
  /\ m_isInitialized
  /\ op' = "matrixT"
  /\ m_matrix' = MatrixTValue(m_matrix)
  /\ ret' = [op |-> "matrixT", vec |-> <<>>, mat |-> MatrixTValue(m_matrix), seq |-> <<>>]
  /\ UNCHANGED <<m_hCoeffs, m_isInitialized, pc, failed, arguments, hCoeffs, locals,
                 matrix, previous>>

matrixT == Accessor("matrixT", <<>>, MatrixTValue(m_matrix), <<>>)

(***************************************************************************)
(* The free functions, called on the caller's own buffers.                 *)
(***************************************************************************)
\* the content of a buffer of the caller before the call
Old == Num(9)

OldVector(size) == Eager([k \in 1..size |-> Old])

\* matrices that are not square
NonSquare ==
  { [rows |-> r, cols |-> c,
     a |-> Eager([j \in 0..(r - 1) |-> [k \in 0..(c - 1) |-> Num(j + k)]])] :
      <<r, c>> \in { p \in (1..MaxOrder) \X (1..MaxOrder) : p[1] = p[2] + 1 \/ p[2] = p[1] + 1 } }

\* the vector lengths tried for a matrix with the given number of rows
LengthsFor(rows) == { k \in (rows - 2)..(rows + 1) : k >= 0 }

\* MatrixType::ColsAtCompileTime of a type that can hold M
CompileTimeSizes(M) == {Dynamic, M.cols}

\* the assertion without its third conjunct
Inplace4AssertWithoutSubdiag(M, d, s) ==
  LET n == M.rows IN M.cols = n /\ Len(d) = n

\* the assertion of the four-argument function
Inplace4Assert(M, d, s) ==
  LET n == M.rows IN M.cols = n /\ Len(d) = n /\ Len(s) = n - 1

\* a selector that has no specializations
SelectorPrimaryOnly(sz) == "l451"

\* ei_tridiagonalization_inplace_selector<MatrixType>: the primary template
\* unless Size, the ColsAtCompileTime of MatrixType, is 3 or 1
Selector(sz) == IF sz = 3 THEN "l473" ELSE IF sz = 1 THEN "l516" ELSE "l451"

\* the state at the call ei_tridiagonalization_inplace(mat, diag, subdiag, extractQ)
Call4(M, d, s, q, sz) ==
  /\ mat = M /\ diag = d /\ subdiag = s /\ extractQ = q /\ Size = sz
  /\ hCoeffs = <<>>
  /\ args = [mat |-> M, diag |-> d, subdiag |-> s, hCoeffs |-> <<>>]
  /\ op = "ei_tridiagonalization_inplace4"
  /\ pc = "l435"

\* the state at the call ei_tridiagonalization_inplace(matA, hCoeffs)
Call2(M, hc) ==
  /\ mat = M /\ diag = <<>> /\ subdiag = <<>> /\ extractQ = FALSE /\ Size = Dynamic
  /\ hCoeffs = hc
  /\ args = [mat |-> M, diag |-> <<>>, subdiag |-> <<>>, hCoeffs |-> hc]
  /\ op = "ei_tridiagonalization_inplace2"
  /\ pc = "reducer"

InitInplace ==
  /\ m_matrix = NoMatrix /\ m_hCoeffs = <<>> /\ m_isInitialized = FALSE
  /\ \/ \E M \in Inputs \cup NonSquare : \E sz \in CompileTimeSizes(M) :
          \E q \in BOOLEAN : \E dn, sn \in LengthsFor(M.rows) :
             Call4(M, OldVector(dn), OldVector(sn), q, sz)
     \/ \E M \in Inputs \cup NonSquare : \E hn \in LengthsFor(M.rows) :
          Call2(M, OldVector(hn))
  /\ matrix = NoMatrix /\ path = "none"
  /\ i = 0 /\ h = Indet /\ beta = Indet /\ signs = <<>> /\ visited = <<>>
  /\ previous = 0
  /\ ret = NoRet
  /\ failed = ""

\* a step of the four-argument function or of a selector: the buffers it
\* writes are given, the locals of the reducer are not touched
SelectorStep(next, p) ==
  /\ pc' = next
  /\ path' = p
  /\ UNCHANGED <<object, extractQ, Size, args, locals, history>>

\* Index n = mat.rows(), the assertion, and the choice of the selector
Inplace4Enter ==
  /\ pc = "l435"
  /\ IF Inplace4Assert(mat, diag, subdiag)
     THEN /\ SelectorStep(Selector(Size), path)
          /\ UNCHANGED failed
     ELSE /\ SelectorStep("aborted", path)
          /\ failed' = "mat.cols()==n && diag.size()==n && subdiag.size()==n-1"
  /\ UNCHANGED <<mat, diag, subdiag, hCoeffs>>

(***************************************************************************)
(* The primary template: the general path.                                 *)
(***************************************************************************)
\* CoeffVectorType hCoeffs(mat.cols()-1), and the call of the reducer
GeneralAlloc ==
  /\ pc = "l451"
  /\ hCoeffs' = UninitVector(mat.cols - 1)
  /\ SelectorStep("reducer", "general")
  /\ UNCHANGED <<mat, diag, subdiag, failed>>

\* diag = mat.diagonal().real(); subdiag = mat.diagonal<-1>().real()
GeneralDiag ==
  /\ pc = "return"
  /\ op = "ei_tridiagonalization_inplace4"
  /\ diag' = VReal(Diagonal(mat))
  /\ subdiag' = VReal(SubDiag(mat))
  /\ SelectorStep("l455", path)
  /\ UNCHANGED <<mat, hCoeffs, failed>>

\* if(extractQ) mat = HouseholderSequenceType(mat, hCoeffs.conjugate(), ...)
GeneralExtractQ ==
  /\ pc = "l455"
  /\ mat' = IF extractQ
            THEN EvalTo(HouseholderSequence(mat, VConj(hCoeffs), mat.rows - 1))
            ELSE mat
  /\ SelectorStep("done", path)
  /\ UNCHANGED <<diag, subdiag, hCoeffs, failed>>

\* the return of the two-argument function to its caller
DirectReturn ==
  /\ pc = "return"
  /\ op = "ei_tridiagonalization_inplace2"
  /\ SelectorStep("done", path)
  /\ UNCHANGED <<mat, diag, subdiag, hCoeffs, failed>>

(***************************************************************************)
(* The specialization for 3x3 matrices.                                    *)
(***************************************************************************)
\* RealScalar v1norm2 = ei_abs2(mat(2,0))
V1Norm2(m) == ei_abs2(m.a[2][0])

\* the else branch with mat(1,1) - mat(2,2) in q
Closed3Swapped(m) ==
  LET beta3 == ei_sqrt(CAdd(ei_abs2(m.a[1][0]), V1Norm2(m)))
      invBeta == CDiv(Num(1), beta3)
      m01 == CMul(ei_conj(m.a[1][0]), invBeta)
      m02 == CMul(ei_conj(m.a[2][0]), invBeta)
      q == CAdd(CMul(CMul(Num(2), m01), ei_conj(m.a[2][1])),
                CMul(m02, CSub(m.a[1][1], m.a[2][2])))
  IN [diag1 |-> ei_real(CAdd(m.a[1][1], CMul(m02, q))),
      diag2 |-> ei_real(CSub(m.a[2][2], CMul(m02, q))),
      subdiag0 |-> beta3,
      subdiag1 |-> ei_real(CSub(ei_conj(m.a[2][1]), CMul(m01, q))),
      m01 |-> m01, m02 |-> m02]

\* the values of the else branch, from the entries of mat
Closed3(m) ==
  LET beta3 == ei_sqrt(CAdd(ei_abs2(m.a[1][0]), V1Norm2(m)))
      invBeta == CDiv(Num(1), beta3)
      m01 == CMul(ei_conj(m.a[1][0]), invBeta)
      m02 == CMul(ei_conj(m.a[2][0]), invBeta)
      q == CAdd(CMul(CMul(Num(2), m01), ei_conj(m.a[2][1])),
                CMul(m02, CSub(m.a[2][2], m.a[1][1])))
  IN [diag1 |-> ei_real(CAdd(m.a[1][1], CMul(m02, q))),
      diag2 |-> ei_real(CSub(m.a[2][2], CMul(m02, q))),
      subdiag0 |-> beta3,
      subdiag1 |-> ei_real(CSub(ei_conj(m.a[2][1]), CMul(m01, q))),
      m01 |-> m01, m02 |-> m02]

\* mat << 1, 0, 0,  0, m01, m02,  0, m02, -m01
Q3(m01, m02) ==
  [rows |-> 3, cols |-> 3,
   a |-> <<<<Num(1), Num(0), Num(0)>>, <<Num(0), m01, m02>>, <<Num(0), m02, CNeg(m01)>>>>]

\* a 3x3 matrix literal with rows and columns counted from 0
FromRows(m) ==
  [m EXCEPT !.a = Eager([r \in 0..2 |-> [c \in 0..2 |-> m.a[r + 1][c + 1]]])]

\* diag[0] = ei_real(mat(0,0)), v1norm2, and the test of the if
Sel3Diag0 ==
  /\ pc = "l473"
  /\ diag' = [diag EXCEPT ![1] = ei_real(mat.a[0][0])]
  /\ SelectorStep(IF ei_isMuchSmallerThan(V1Norm2(mat), Num(1)) THEN "l477" ELSE "l486",
                  "closed-form")
  /\ UNCHANGED <<mat, subdiag, hCoeffs, failed>>

\* the then branch: the matrix is taken as tridiagonal already
Sel3Copy ==
  /\ pc = "l477"
  /\ diag' = [diag EXCEPT ![2] = ei_real(mat.a[1][1]), ![3] = ei_real(mat.a[2][2])]
  /\ subdiag' = <<ei_real(mat.a[1][0]), ei_real(mat.a[2][1])>>
  /\ SelectorStep("l481", path)
  /\ UNCHANGED <<mat, hCoeffs, failed>>

\* if (extractQ) mat.setIdentity()
Sel3Identity ==
  /\ pc = "l481"
  /\ mat' = IF extractQ THEN Identity(3) ELSE mat
  /\ SelectorStep("done", path)
  /\ UNCHANGED <<diag, subdiag, hCoeffs, failed>>

\* the else branch up to subdiag[1]
Sel3Closed ==
  /\ pc = "l486"
  /\ LET c3 == Closed3(mat)
     IN /\ diag' = [diag EXCEPT ![2] = c3.diag1, ![3] = c3.diag2]
        /\ subdiag' = <<c3.subdiag0, c3.subdiag1>>
  /\ SelectorStep("l495", path)
  /\ UNCHANGED <<mat, hCoeffs, failed>>

\* mat << ... without the test of extractQ
Sel3WriteQAlways ==
  /\ pc = "l495"
  /\ mat' = FromRows(Q3(Closed3(mat).m01, Closed3(mat).m02))
  /\ SelectorStep("done", path)
  /\ UNCHANGED <<diag, subdiag, hCoeffs, failed>>

\* if (extractQ) mat << ...; m01 and m02 are those of the step before, mat
\* not having been written since
Sel3WriteQ ==
  /\ pc = "l495"
  /\ mat' = IF extractQ THEN FromRows(Q3(Closed3(mat).m01, Closed3(mat).m02)) ELSE mat
  /\ SelectorStep("done", path)
  /\ UNCHANGED <<diag, subdiag, hCoeffs, failed>>

(***************************************************************************)
(* The specialization for 1x1 matrices.                                    *)
(***************************************************************************)
\* diag(0,0) = ei_real(mat(0,0))
Sel1Diag ==
  /\ pc = "l516"
  /\ diag' = [diag EXCEPT ![1] = ei_real(mat.a[0][0])]
  /\ SelectorStep("l517", "trivial")
  /\ UNCHANGED <<mat, subdiag, hCoeffs, failed>>

\* if(extractQ) mat(0,0) = Scalar(1)
Sel1Q ==
  /\ pc = "l517"
  /\ mat' = IF extractQ THEN SetCoeff(mat, 0, 0, Num(1)) ELSE mat
  /\ SelectorStep("done", path)
  /\ UNCHANGED <<diag, subdiag, hCoeffs, failed>>

(***************************************************************************)
(* The two specifications: the object and its member functions, and one    *)
(* call of a free function.                                                *)
(***************************************************************************)
Next ==
  \/ \E A \in Inputs : compute(A)
  \/ ReducerEnter
  \/ LoopCondition
  \/ MakeHouseholder
  \/ SetOne
  \/ Product
  \/ Correct
  \/ RankUpdateStep
  \/ SetBeta
  \/ StoreH
  \/ FacadeReturn
  \/ householderCoefficients
  \/ packedMatrix
  \/ matrixQ
  \/ matrixT
  \/ diagonal
  \/ subDiagonal

Spec == Init /\ [][Next]_vars

NextInplace ==
  \/ Inplace4Enter
  \/ GeneralAlloc
  \/ ReducerEnter
  \/ LoopCondition
  \/ MakeHouseholder
  \/ SetOne
  \/ Product
  \/ Correct
  \/ RankUpdateStep
  \/ SetBeta
  \/ StoreH
  \/ GeneralDiag
  \/ GeneralExtractQ
  \/ DirectReturn
  \/ Sel3Diag0
  \/ Sel3Copy
  \/ Sel3Identity
  \/ Sel3Closed
  \/ Sel3WriteQ
  \/ Sel1Diag
  \/ Sel1Q

SpecInplace == InitInplace /\ [][NextInplace]_vars

(***************************************************************************)
(* Properties of the class, checked under Spec.                            *)
(***************************************************************************)
\* C1: an accessor called while the flag is false fails the "not
\* initialized" assertion, and the flag is false on a size-constructed object
\* until a compute() has completed; when compute() or the matrix constructor
\* has completed the flag is true, an accessor called then passes the check
\* and returns, and no step sets the flag back to false (the only step that
\* changes the flag is the return of the reducer into compute() or the
\* constructor, which sets it).
C1_InitializedFlagGatesAccessors ==
  /\ [](/\ op \in AccessorOps =>
             \/ m_isInitialized /\ failed = "" /\ pc = "idle" /\ ret.op = op
             \/ ~m_isInitialized /\ failed = NotInitialized /\ pc = "aborted"
        /\ op = "Tridiagonalization(size)" => ~m_isInitialized
        /\ (pc = "idle" /\ op \in {"compute", "Tridiagonalization(matrix)"})
             => m_isInitialized)
  /\ [][/\ m_isInitialized => m_isInitialized'
        /\ (m_isInitialized' # m_isInitialized) => pc = "return"]_vars

\* C1 witness: matrixT() has returned on an object on which a compute() has
\* completed, with an input of another order than the object had before
C1_Witness ==
  /\ op = "matrixT" /\ ret.op = "matrixT" /\ m_isInitialized
  /\ previous # 0 /\ previous # matrix.rows

\* C2: compute() never fails on a square input, and whenever the object is
\* idle and initialized, m_matrix has the order of the last input, m_hCoeffs
\* has one entry less, every entry of both is a determinate number, and both
\* are what the reducer makes of the last input alone, started on a
\* coefficient vector that has never been written.
C2_ComputeDependsOnLastInputOnly ==
  /\ op = "compute" => failed = ""
  /\ (pc = "idle" /\ m_isInitialized) =>
       LET n == matrix.rows
           fresh == ReducerFrom(EntryFrame(matrix, UninitVector(n - 1)), 0, signs)
       IN /\ m_matrix.rows = n /\ m_matrix.cols = n
          /\ Len(m_hCoeffs) = n - 1
          /\ Determinate(m_matrix, m_hCoeffs)
          /\ m_matrix = fresh.matA
          /\ m_hCoeffs = fresh.hCoeffs

\* C2 witness: a compute() on an input of order 2 has completed on an object
\* that held a decomposition of order 3 before
C2_Witness ==
  /\ pc = "idle" /\ op = "compute" /\ m_isInitialized
  /\ previous = 3 /\ matrix.rows = 2 /\ Len(m_hCoeffs) = 1

\* C4: the matrix matrixT() returns has the order of the packed buffer, is
\* zero wherever |r - c| >= 2, has the main diagonal and the first
\* sub-diagonal of the packed buffer, and has at (r, r+1) the conjugate of the
\* real part of the packed entry (r+1, r); for n = 1 and n = 2 as well.
C4_MatrixTIsTridiagonal ==
  ret.op = "matrixT" =>
    LET T == ret.mat
        n == m_matrix.rows
    IN /\ T.rows = n /\ T.cols = n
       /\ \A r, c \in 0..(n - 1) :
            /\ (r - c >= 2 \/ c - r >= 2) => T.a[r][c] = Num(0)
            /\ (r = c \/ r = c + 1) => T.a[r][c] = m_matrix.a[r][c]
            /\ c = r + 1 => T.a[r][c] = ei_conj(ei_real(m_matrix.a[c][r]))

\* C4 witness: matrixT() has returned for order 3 with a packed buffer that
\* is not zero at (2, 0)
C4_Witness ==
  /\ ret.op = "matrixT" /\ m_matrix.rows = 3
  /\ m_matrix.a[2][0] # Num(0) /\ ret.mat.a[2][0] = Num(0)

\* C5: a call of an accessor leaves m_matrix, m_hCoeffs and m_isInitialized
\* unchanged, and an accessor called again right after it has returned
\* returns the same value.
C5_AccessorsLeaveStateUnchanged ==
  [][(pc = "idle" /\ op' \in AccessorOps) =>
       /\ UNCHANGED <<m_matrix, m_hCoeffs, m_isInitialized>>
       /\ (op' = op /\ m_isInitialized) => ret' = ret]_vars

\* C5 witness: matrixT() has returned a matrix that differs from the packed
\* buffer, which the object still holds
C5_Witness ==
  /\ ret.op = "matrixT" /\ ret.mat # m_matrix
  /\ m_matrix = ReducerFrom(EntryFrame(matrix, UninitVector(matrix.rows - 1)), 0, signs).matA

\* C6: the matrix constructor ends as construction from a size followed by
\* compute(matrix) does: no assertion fails, and m_hCoeffs has n-1 entries.
C6_MatrixConstructorCallsCompute ==
  (op = "Tridiagonalization(matrix)" /\ pc # "reducer") =>
    /\ failed = ""
    /\ Len(m_hCoeffs) = ComputeCoeffSize(matrix.rows)

(***************************************************************************)
(* Properties of the free functions, checked under SpecInplace.            *)
(***************************************************************************)
\* C3: while the reducer runs, and when a call of it has returned, every
\* entry of matA above the diagonal has the value it had in the input.
C3_UpperTriangleUntouched ==
  (InReducer \/ (pc = "done" /\ op = "ei_tridiagonalization_inplace2")) =>
    \A r, c \in 0..(mat.rows - 1) : c > r => mat.a[r][c] = args.mat.a[r][c]

\* C3 witness: a call of the reducer on a matrix of order 3 has returned,
\* having changed the matrix
C3_Witness ==
  /\ pc = "done" /\ op = "ei_tridiagonalization_inplace2"
  /\ mat.rows = 3 /\ mat # args.mat

\* C7 as stated: the selector taken is the one for the order of the matrix
\* at run time.
C7_SelectionByRunTimeOrder ==
  path # "none" =>
    path = IF args.mat.rows = 1 THEN "trivial"
           ELSE IF args.mat.rows = 3 THEN "closed-form" ELSE "general"

\* C7: the selector taken is the one for MatrixType::ColsAtCompileTime: the
\* trivial one for 1, the closed form for 3, the general one for every other
\* value, Dynamic included whatever the order at run time is; and a call
\* that has returned has taken one.
C7_SelectionByCompileTimeSize ==
  /\ path # "none" =>
       path = IF Size = 1 THEN "trivial"
              ELSE IF Size = 3 THEN "closed-form" ELSE "general"
  /\ (pc = "done" /\ op = "ei_tridiagonalization_inplace4") => path # "none"

\* C7 witness: a call with a dynamically sized 3x3 matrix has returned from
\* the general path
C7_Witness ==
  /\ pc = "done" /\ Size = Dynamic /\ args.mat.rows = 3 /\ path = "general"

\* a call on the general path has returned, for a real symmetric 3x3 input
\* whose |A(2,0)|^2 is not negligible
GeneralDone3 ==
  /\ pc = "done" /\ path = "general" /\ args.mat.rows = 3
  /\ ~ei_isMuchSmallerThan(V1Norm2(args.mat), Num(1))
  /\ \A r, c \in 0..2 : r >= c => IsReal(args.mat.a[r][c])

C9_AssertionsBeforeAnyWrite ==
  LET n == args.mat.rows
      bad2 == /\ op = "ei_tridiagonalization_inplace2"
              /\ (args.mat.cols # n \/ Len(args.hCoeffs) # n - 1)
      bad4 == /\ op = "ei_tridiagonalization_inplace4"
              /\ (args.mat.cols # n \/ Len(args.diag) # n \/ Len(args.subdiag) # n - 1)
  IN (bad2 \/ bad4) =>
       /\ pc \in {"l435", "reducer", "aborted"}
       /\ pc = "aborted" <=> failed # ""
       /\ mat = args.mat /\ hCoeffs = args.hCoeffs
       /\ diag = args.diag /\ subdiag = args.subdiag

\* C9 witness: the four-argument function has failed its assertion for a
\* square matrix, a diag of its order and a subdiag of the same length
C9_Witness ==
  /\ pc = "aborted" /\ op = "ei_tridiagonalization_inplace4"
  /\ args.mat.rows = 3 /\ args.mat.cols = 3
  /\ Len(args.diag) = 3 /\ Len(args.subdiag) = 3

\* C10: when the loop ends it has run i = 0, 1, ..., n-2 in this order, and
\* for every k the lower-triangle entries with row and column <= k, and the
\* entry (k+1, k), are then as iteration k left them; a step of iteration i
\* changes no entry of the lower triangle other than those of column i below
\* the diagonal and those with row and column >= i+1.
C10_LeadingBlockIsFinal ==
  /\ [](pc = "return" =>
          LET n == RefFrame.matA.rows
              entry == EntryFrame(matrix, UninitVector(n - 1))
          IN /\ visited = [k \in 1..(n - 1) |-> k - 1]
             /\ \A k \in 0..(n - 2) : \A r, c \in 0..(n - 1) :
                  ((c <= r /\ r <= k) \/ (r = k + 1 /\ c = k)) =>
                     RefFrame.matA.a[r][c] = AfterIteration(entry, k, signs).matA.a[r][c])
  /\ [][(pc \in ReducerBody) =>
          (\A r, c \in 0..(RefFrame.matA.rows - 1) :
             (r >= c /\ RefFrame'.matA.a[r][c] # RefFrame.matA.a[r][c]) =>
                ((c = i /\ r > i) \/ (r >= i + 1 /\ c >= i + 1)))]_vars

\* C10 witness: the loop has ended for order 3 after the iterations 0 and 1,
\* the second of which changed the buffer
C10_Witness ==
  /\ pc = "return" /\ visited = <<0, 1>> /\ mat.rows = 3
  /\ mat # ReducerIteration(EntryFrame(args.mat, args.hCoeffs), 0, signs[1]).matA

\* C11: a step of iteration i changes no coefficient of index below i; the
\* last step of the iteration stores at index i the h that the reflector
\* construction of this iteration returned, and no step of the iteration
\* changes h after that construction; when the loop ends, hCoeffs[k] is for
\* every k in 0..n-2 the h of the reflector construction of iteration k.
C11_CoefficientsSurviveScratch ==
  /\ [](pc = "return" =>
          LET n == RefFrame.matA.rows
              entry == EntryFrame(matrix, UninitVector(n - 1))
          IN /\ Len(RefFrame.hCoeffs) = n - 1
             /\ \A k \in 0..(n - 2) :
                  RefFrame.hCoeffs[k + 1] = AfterIteration(entry, k, signs).h)
  /\ [][(pc \in ReducerBody) =>
          /\ \A k \in 1..Len(RefFrame.hCoeffs) :
               k <= i => RefFrame'.hCoeffs[k] = RefFrame.hCoeffs[k]
          /\ pc # "l367" => h' = h
          /\ pc' = "loop" <=> pc = "l382"
          /\ pc = "l382" => RefFrame'.hCoeffs[i + 1] = h]_vars

\* C11 witness: the loop has ended for order 3, the scratch of iteration 1
\* having been written while the coefficient of iteration 0, which is not
\* zero, was stored
C11_Witness ==
  /\ pc = "return" /\ mat.rows = 3 /\ visited = <<0, 1>>
  /\ hCoeffs[1] # Num(0) /\ hCoeffs[1] # hCoeffs[2]
  /\ hCoeffs[1] = AfterIteration(EntryFrame(matrix, UninitVector(2)), 0, signs).h

\* C12: in a call of the four-argument function mat is as the caller passed
\* it until the reducer runs (general path) or until the last step of the
\* trivial or the closed-form path; that last step leaves mat alone when
\* extractQ is false and writes Q when it is true (1; the identity in the
\* negligible branch; the matrix of m01 and m02 otherwise), diag and subdiag
\* holding by then the values computed from the entries passed; on the
\* general path diag and subdiag are the real diagonals of the packed buffer,
\* assigned while mat still holds it, and mat ends as the packed buffer when
\* extractQ is false and as the Q of its reflectors when it is true.  No
\* step that writes Q changes diag or subdiag.
C12_MatrixWrittenLast ==
  /\ [](op = "ei_tridiagonalization_inplace4" =>
          LET A == args.mat
              n == A.rows
              negligible == ei_isMuchSmallerThan(V1Norm2(A), Num(1))
              c3 == Closed3(A)
              res == ReducerFrom(EntryFrame(A, UninitVector(n - 1)), 0, signs)
              packed == res.matA
          IN /\ pc \in {"l435", "aborted", "l516", "l517", "l473", "l477", "l481",
                        "l486", "l495", "l451", "reducer"} => mat = A
             /\ (path = "trivial" /\ pc \in {"l517", "done"}) =>
                  diag = <<ei_real(A.a[0][0])>>
             /\ (path = "trivial" /\ pc = "done") =>
                  mat = IF extractQ THEN Identity(1) ELSE A
             /\ (path = "closed-form" /\ pc \in {"l481", "l495", "done"}) =>
                  /\ diag = IF negligible
                            THEN <<ei_real(A.a[0][0]), ei_real(A.a[1][1]), ei_real(A.a[2][2])>>
                            ELSE <<ei_real(A.a[0][0]), c3.diag1, c3.diag2>>
                  /\ subdiag = IF negligible
                               THEN <<ei_real(A.a[1][0]), ei_real(A.a[2][1])>>
                               ELSE <<c3.subdiag0, c3.subdiag1>>
             /\ (path = "closed-form" /\ pc = "done") =>
                  mat = IF ~extractQ THEN A
                        ELSE IF negligible THEN Identity(3)
                        ELSE FromRows(Q3(c3.m01, c3.m02))
             /\ (path = "general" /\ pc \in {"l455", "done"}) =>
                  /\ diag = VReal(Diagonal(packed))
                  /\ subdiag = VReal(SubDiag(packed))
                  /\ hCoeffs = res.hCoeffs
             /\ (path = "general" /\ pc = "l455") => mat = packed
             /\ (path = "general" /\ pc = "done") =>
                  mat = IF extractQ
                        THEN EvalTo(HouseholderSequence(packed, VConj(res.hCoeffs), n - 1))
                        ELSE packed)
  /\ [][(op = "ei_tridiagonalization_inplace4" /\ mat' # mat) =>
          \/ pc \in ReducerBody
          \/ extractQ /\ pc' = "done" /\ diag' = diag /\ subdiag' = subdiag]_vars

\* C12 witness: the closed-form path has returned with Q in mat, having
\* computed diag and subdiag from the entries passed, in the branch that is
\* not the negligible one
C12_Witness ==
  /\ op = "ei_tridiagonalization_inplace4" /\ pc = "done" /\ path = "closed-form"
  /\ extractQ /\ ~ei_isMuchSmallerThan(V1Norm2(args.mat), Num(1))
  /\ mat # args.mat /\ diag # args.diag
  /\ subdiag[1] = Closed3(args.mat).subdiag0

====
